---- MODULE Spec2Model ----
(***************************************************************************)
(* A model of mongoengine/django/mongo_auth/models.py: MongoUserManager,   *)
(* the manager that bridges Django's user model (MongoUser, the relational *)
(* shadow model) to a MongoEngine user document.                           *)
(*                                                                         *)
(* Strings that the code takes apart (the configured dotted path) are      *)
(* sequences of one-character strings; class objects are named by strings. *)
(***************************************************************************)
EXTENDS Naturals, Sequences, FiniteSets

(* ------------------------------ bounds --------------------------------- *)

\* Longest configured dotted path that is enumerated.
MaxNameLen == 3
\* Longest REQUIRED_FIELDS list of the user document.
MaxRequired == 2
\* Most stored documents sharing one primary-field value.
MaxDocs == 2

(* ----------------------------- vocabulary ------------------------------ *)

\* max_length of every projected CharField.
MaxLength == 30

\* Characters a configured path is made of: the separator and two letters.
Chars == {".", "m", "U"}

\* Field names a user document may declare.
FieldNames == {"username", "email", "first_name"}

\* Primary-field values of stored documents and of get() criteria.
Values == {"ann", "bob"}

\* get() without criteria matches every document.
NoCriteria == "<all>"

Criteria == Values \cup {NoCriteria}

\* Python's None, for a reference or a return value.
None == "None"

\* The two classes a manager's self.model can refer to.
MongoUser == "MongoUser"
Document == "Document"

BoundedSeq(S, n) == UNION {[1..k -> S] : k \in 0..n}

\* 'mongoengine.django.auth.User', the default of the setting.
DefaultName ==
    << "m","o","n","g","o","e","n","g","i","n","e", ".",
       "d","j","a","n","g","o", ".", "a","u","t","h", ".", "U","s","e","r" >>

\* Values of settings.MONGOENGINE_USER_DOCUMENT: absent, or a dotted path.
SettingValues ==
    {[set |-> FALSE, value |-> << >>]}
        \cup {[set |-> TRUE, value |-> s] : s \in BoundedSeq(Chars, MaxNameLen)}

\* A user document class: the two attributes the manager reads.
DocumentSchemas ==
    [USERNAME_FIELD : FieldNames,
     REQUIRED_FIELDS : BoundedSeq(FieldNames, MaxRequired)]

\* The document collection: how many documents carry each primary value.
Stores == [Values -> 0..MaxDocs]

(* ------------------------------- state --------------------------------- *)

VARIABLES
    settings,   \* settings.MONGOENGINE_USER_DOCUMENT, or absent
    document,   \* the user document class installed in the process
    store,      \* the document collection
    pc,         \* position of the manager in contribute_to_class
    model,      \* self.model
    dj_model,   \* self.dj_model
    shadow,     \* the class MongoUser: attributes set and fields declared
    i,          \* index of the REQUIRED_FIELDS loop
    raised,     \* the exception that ended class definition, if any
    last,       \* the last manager operation and its outcome
    touched     \* classes whose query entry point a manager query has used

vars == << settings, document, store, pc, model, dj_model, shadow, i,
           raised, last, touched >>

env == << settings, document, store >>

(* --------------------------- pure functions ---------------------------- *)

\* Line 10-11: getattr(settings, 'MONGOENGINE_USER_DOCUMENT', default).
MONGOENGINE_USER_DOCUMENT ==
    IF settings.set THEN settings.value ELSE DefaultName

\* str.rindex('.'): the set of positions of the separator (empty: ValueError).
SepPositions(name) == {k \in 1..Len(name) : name[k] = "."}

HasSep(name) == SepPositions(name) # {}

\* The last separator, 1-based.
rindex(name) == CHOOSE k \in SepPositions(name) : \A j \in SepPositions(name) : j <= k

\* name[:dot] and name[dot + 1:].
ModuleSegment(name) == SubSeq(name, 1, rindex(name) - 1)
AttrSegment(name) == SubSeq(name, rindex(name) + 1, Len(name))

\* The modules the process can import, each with its attributes.
DefaultModule == SubSeq(DefaultName, 1, 23)
ImportableModules == {<< "m" >>, DefaultModule}
ModuleAttrs(m) == IF m = DefaultModule THEN {SubSeq(DefaultName, 25, 28)} ELSE {<< "U" >>}

\* A dotted module name with an empty component after the first one.
HasEmptyComponent(m) ==
    \/ m # << >> /\ m[Len(m)] = "."
    \/ \E k \in 1..Len(m) - 1 : m[k] = "." /\ m[k + 1] = "."

\* The component of a dotted module name before its first separator.
FirstComponent(m) ==
    IF HasSep(m)
    THEN SubSeq(m, 1, (CHOOSE k \in SepPositions(m) : \A j \in SepPositions(m) : k <= j) - 1)
    ELSE m

Fault(type, name) == [ret |-> None, exc |-> type, arg |-> name]
Return(value) == [ret |-> value, exc |-> None, arg |-> << >>]

\* importlib.import_module(m), as called on line 63: the outcomes it can
\* have.  An empty name is a ValueError; a name with a leading separator is
\* a relative import without a package, a TypeError.  A name with an empty
\* inner or trailing component cannot be imported either: ImportError when
\* its first component is not importable, and otherwise ImportError,
\* ValueError or KeyError depending on the interpreter's import machinery.
import_module(m) ==
    IF m = << >> THEN {Fault("ValueError", m)}
    ELSE IF m[1] = "." THEN {Fault("TypeError", m)}
    ELSE IF HasEmptyComponent(m)
         THEN IF FirstComponent(m) \in ImportableModules
              THEN {Fault("ImportError", m), Fault("ValueError", m), Fault("KeyError", m)}
              ELSE {Fault("ImportError", m)}
    ELSE IF m \in ImportableModules THEN {Return("module")}
    ELSE {Fault("ImportError", m)}

\* getattr(module, attr), line 64
getattr(m, attr) ==
    IF attr \in ModuleAttrs(m) THEN Return(Document) ELSE Fault("AttributeError", attr)

\* _get_user_document with `except Exception` in place of `except
\* ImportError`: every fault of the import becomes ImproperlyConfigured.
_get_user_document_catch_all(name) ==
    IF ~HasSep(name) THEN {Fault("ValueError", name)}
    ELSE { IF o.exc # None THEN Fault("ImproperlyConfigured", name)
           ELSE getattr(ModuleSegment(name), AttrSegment(name))
           : o \in import_module(ModuleSegment(name)) }

\* Lines 59-68: the outcomes of _get_user_document for the configured name.
_get_user_document(name) ==
    IF ~HasSep(name) THEN {Fault("ValueError", name)}
    ELSE { IF o.exc = "ImportError" THEN Fault("ImproperlyConfigured", name)
           ELSE IF o.exc # None THEN o
           ELSE getattr(ModuleSegment(name), AttrSegment(name))
           : o \in import_module(ModuleSegment(name)) }

(* ------------------------------- Init ---------------------------------- *)

NoExc == [cls |-> None, type |-> None]
NoDoc == [pk |-> None, n |-> 0]
NoQuerySet == [cls |-> None, kind |-> None]

NoOp == [op |-> "none", criteria |-> None, exc |-> NoExc, doc |-> NoDoc,
         qs |-> NoQuerySet]

Init ==
    /\ settings \in SettingValues
    /\ document \in DocumentSchemas
    /\ store \in Stores
    /\ pc = "new"
    /\ model = None
    /\ dj_model = None
    /\ shadow = [defined |-> {}, USERNAME_FIELD |-> None,
                 REQUIRED_FIELDS |-> << >>, fields |-> << >>]
    /\ i = 0
    /\ raised = Return(None)
    /\ last = NoOp
    /\ touched = {}

(* ------------------------ contribute_to_class -------------------------- *)

\* models.CharField(_(label), max_length=30[, unique=True]) contributed to
\* the class under `name`: one more entry of the class's declared fields.
\* The field contributed under its label instead of the given name.
CharFieldUnderLabel(name, label, unique) ==
    [name |-> label, verbose_name |-> label, max_length |-> MaxLength,
     unique |-> unique]

\* The field declared without passing unique on.
CharFieldNeverUnique(name, label, unique) ==
    [name |-> name, verbose_name |-> label, max_length |-> MaxLength,
     unique |-> FALSE]

CharField(name, label, unique) ==
    [name |-> name, verbose_name |-> label, max_length |-> MaxLength,
     unique |-> unique]

\* cls.USERNAME_FIELD and cls.REQUIRED_FIELDS, read off a class object.
USERNAME_FIELD(cls) ==
    IF cls = Document THEN document.USERNAME_FIELD ELSE shadow.USERNAME_FIELD
REQUIRED_FIELDS(cls) ==
    IF cls = Document THEN document.REQUIRED_FIELDS ELSE shadow.REQUIRED_FIELDS

\* Line 46: the base Manager.contribute_to_class sets self.model and puts
\* the manager on the class under its name.
Attach ==
    /\ pc = "new"
    /\ model' = MongoUser
    /\ shadow' = [shadow EXCEPT !.defined = @ \cup {"objects"}]
    /\ pc' = "attached"
    /\ UNCHANGED << env, dj_model, i, raised, last, touched >>

\* Capture with line 47 left out.
CaptureNothing ==
    /\ pc = "attached"
    /\ pc' = "captured"
    /\ UNCHANGED << env, model, dj_model, shadow, i, raised, last, touched >>

\* Line 47: self.dj_model = self.model
Capture ==
    /\ pc = "attached"
    /\ dj_model' = model
    /\ pc' = "captured"
    /\ UNCHANGED << env, model, shadow, i, raised, last, touched >>

\* Resolve with self.model cleared before the document is resolved.
ResolveClearsModel ==
    /\ pc = "captured"
    /\ \E o \in _get_user_document(MONGOENGINE_USER_DOCUMENT) :
          IF o.exc # None
          THEN /\ raised' = o
               /\ pc' = "failed"
               /\ model' = None
          ELSE /\ model' = o.ret
               /\ pc' = "resolved"
               /\ UNCHANGED raised
    /\ UNCHANGED << env, dj_model, shadow, i, last, touched >>

\* Line 48: self.model = self._get_user_document(); an exception ends
\* contribute_to_class, and with it the definition of the class.
Resolve ==
    /\ pc = "captured"
    /\ \E o \in _get_user_document(MONGOENGINE_USER_DOCUMENT) :
          IF o.exc # None
          THEN /\ raised' = o
               /\ pc' = "failed"
               /\ UNCHANGED model
          ELSE /\ model' = o.ret
               /\ pc' = "resolved"
               /\ UNCHANGED raised
    /\ UNCHANGED << env, dj_model, shadow, i, last, touched >>

\* Lines 50-52: USERNAME_FIELD is copied from the document and a unique
\* CharField labelled 'username' is contributed under that name.
ProjectUsername ==
    /\ pc = "resolved"
    /\ shadow' = [shadow EXCEPT
          !.defined = @ \cup {"USERNAME_FIELD"},
          !.USERNAME_FIELD = USERNAME_FIELD(model),
          !.fields = Append(@, CharField(USERNAME_FIELD(model), "username", TRUE))]
    /\ pc' = "username"
    /\ UNCHANGED << env, model, dj_model, i, raised, last, touched >>

\* Line 54: REQUIRED_FIELDS is copied from the document.
CopyRequired ==
    /\ pc = "username"
    /\ shadow' = [shadow EXCEPT
          !.defined = @ \cup {"REQUIRED_FIELDS"},
          !.REQUIRED_FIELDS = REQUIRED_FIELDS(model)]
    /\ i' = 1
    /\ pc' = "required"
    /\ UNCHANGED << env, model, dj_model, raised, last, touched >>

\* Lines 55-57: one pass of the loop over the shadow model's
\* REQUIRED_FIELDS, contributing a CharField labelled with the name.
ProjectRequired ==
    /\ pc = "required"
    /\ i <= Len(shadow.REQUIRED_FIELDS)
    /\ shadow' = [shadow EXCEPT
          !.fields = Append(@, CharField(shadow.REQUIRED_FIELDS[i],
                                         shadow.REQUIRED_FIELDS[i], FALSE))]
    /\ i' = i + 1
    /\ UNCHANGED << env, pc, model, dj_model, raised, last, touched >>

\* Line 55, the loop is exhausted: contribute_to_class returns.
Finish ==
    /\ pc = "required"
    /\ i > Len(shadow.REQUIRED_FIELDS)
    /\ pc' = "done"
    /\ UNCHANGED << env, model, dj_model, shadow, i, raised, last, touched >>

contribute_to_class ==
    Attach \/ Capture \/ Resolve \/ ProjectUsername \/ CopyRequired
        \/ ProjectRequired \/ Finish

(* --------------------------- document layer ---------------------------- *)

\* cls.objects: the default query entry point of a class.
objects(cls) == [cls |-> cls, kind |-> "all"]

\* QuerySet.none(): the empty result set of the same class.
none(qs) == [qs EXCEPT !.kind = "none"]

\* The documents a result set holds.  MongoUser's table is never written.
Rows(qs) ==
    IF qs.cls = Document /\ qs.kind = "all"
    THEN {d \in [pk : Values, n : 1..MaxDocs] : d.n <= store[d.pk]}
    ELSE {}

Matching(qs, c) == {d \in Rows(qs) : c = NoCriteria \/ d.pk = c}

DoesNotExist(cls) == [cls |-> cls, type |-> "DoesNotExist"]
MultipleObjectsReturned(cls) == [cls |-> cls, type |-> "MultipleObjectsReturned"]

\* QuerySet.get(**criteria): the one matching document, or the class's own
\* DoesNotExist / MultipleObjectsReturned.
queryset_get(qs, c) ==
    LET m == Matching(qs, c) IN
    IF m = {} THEN [exc |-> DoesNotExist(qs.cls), doc |-> NoDoc, qs |-> NoQuerySet]
    ELSE IF Cardinality(m) = 1
         THEN [exc |-> NoExc, doc |-> CHOOSE d \in m : TRUE, qs |-> NoQuerySet]
    ELSE [exc |-> MultipleObjectsReturned(qs.cls), doc |-> NoDoc, qs |-> NoQuerySet]

(* ------------------------- manager operations -------------------------- *)

\* get_query_set answering with the relational model's entry point.
get_query_set_relational == objects(dj_model)

\* Lines 84-85
get_query_set == objects(model)

\* get_empty_query_set without the call of none().
get_empty_query_set_unfiltered == objects(model)

\* Lines 81-82
get_empty_query_set == none(objects(model))

\* get without the except clause.
get_untranslated(c) == queryset_get(get_query_set, c)

\* get looking the document up in the empty result set.
get_from_empty(c) ==
    LET r == queryset_get(get_empty_query_set, c) IN
    IF r.exc = DoesNotExist(model)
    THEN [r EXCEPT !.exc = DoesNotExist(dj_model)]
    ELSE r

\* Lines 70-75
get(c) ==
    LET r == queryset_get(get_query_set, c) IN
    IF r.exc = DoesNotExist(model)
    THEN [r EXCEPT !.exc = DoesNotExist(dj_model)]
    ELSE r

\* db answering None instead of raising.
db_returns_none == [exc |-> NoExc, doc |-> NoDoc, qs |-> NoQuerySet]

\* Lines 77-79
db == [exc |-> [cls |-> None, type |-> "NotImplementedError"], doc |-> NoDoc,
       qs |-> NoQuerySet]

Record(op, c, r) ==
    [op |-> op, criteria |-> c, exc |-> r.exc, doc |-> r.doc, qs |-> r.qs]

Get ==
    /\ pc = "done"
    /\ \E c \in Criteria : last' = Record("get", c, get(c))
    /\ touched' = touched \cup {get_query_set.cls}
    /\ UNCHANGED << env, pc, model, dj_model, shadow, i, raised >>

GetQuerySet ==
    /\ pc = "done"
    /\ last' = Record("get_query_set", None,
                      [exc |-> NoExc, doc |-> NoDoc, qs |-> get_query_set])
    /\ touched' = touched \cup {get_query_set.cls}
    /\ UNCHANGED << env, pc, model, dj_model, shadow, i, raised >>

GetEmptyQuerySet ==
    /\ pc = "done"
    /\ last' = Record("get_empty_query_set", None,
                      [exc |-> NoExc, doc |-> NoDoc, qs |-> get_empty_query_set])
    /\ touched' = touched \cup {get_empty_query_set.cls}
    /\ UNCHANGED << env, pc, model, dj_model, shadow, i, raised >>

\* The manager object exists before it is attached and after a failed
\* class definition, and its db property can be read then too.
Db ==
    /\ pc \in {"new", "done", "failed"}
    /\ last' = Record("db", None, db)
    /\ UNCHANGED << env, pc, model, dj_model, shadow, i, raised, touched >>

Next == contribute_to_class \/ Get \/ GetQuerySet \/ GetEmptyQuerySet \/ Db

Spec == Init /\ [][Next]_vars

(* ------------------------------ properties ----------------------------- *)

\* contribute_to_class has got past the resolution of the document.
Resolved == pc \notin {"new", "attached", "captured"}

\* C1: when the document layer's get signals the document's DoesNotExist,
\* the manager's get raises MongoUser.DoesNotExist, and the document's own
\* DoesNotExist never reaches the caller of get.
C1_NotFoundTranslated ==
    last.op = "get" =>
        /\ last.exc # DoesNotExist(Document)
        /\ queryset_get(objects(Document), last.criteria).exc = DoesNotExist(Document)
              => last.exc = DoesNotExist(MongoUser)

C1_Witness ==
    /\ last.op = "get"
    /\ Matching(objects(Document), last.criteria) = {}
    /\ last.exc = DoesNotExist(MongoUser)

\* C2 as stated: resolution fails with ImproperlyConfigured naming the
\* configured string exactly when the string has a module segment that is
\* not an importable module; without a separator, or with a missing
\* attribute on an importable module, it fails with another fault.
C2_Original ==
    LET name == MONGOENGINE_USER_DOCUMENT IN
    Resolved =>
        /\ (raised.exc = "ImproperlyConfigured" /\ raised.arg = name)
              <=> (HasSep(name) /\ ModuleSegment(name) \notin ImportableModules)
        /\ ( \/ ~HasSep(name)
             \/ /\ ModuleSegment(name) \in ImportableModules
                /\ AttrSegment(name) \notin ModuleAttrs(ModuleSegment(name)) )
              => raised.exc \notin {None, "ImproperlyConfigured"}

\* C2 amended: ImproperlyConfigured is raised only for a string with a
\* non-empty module segment that does not start with a separator and is not
\* importable, it then names the configured string, and it is raised for
\* every such segment that has no empty component; a string without a
\* separator, with an empty module segment, with a module segment that
\* starts with a separator, or with a missing attribute on an importable
\* module fails with another fault, never with ImproperlyConfigured.
C2_ConfigurationError ==
    LET name == MONGOENGINE_USER_DOCUMENT IN
    Resolved =>
        /\ raised.exc = "ImproperlyConfigured" =>
              /\ raised.arg = name
              /\ HasSep(name)
              /\ ModuleSegment(name) # << >>
              /\ ModuleSegment(name)[1] # "."
              /\ ModuleSegment(name) \notin ImportableModules
        /\ ( /\ HasSep(name)
             /\ ModuleSegment(name) # << >>
             /\ ModuleSegment(name)[1] # "."
             /\ ~HasEmptyComponent(ModuleSegment(name))
             /\ ModuleSegment(name) \notin ImportableModules )
              => raised.exc = "ImproperlyConfigured"
        /\ ( \/ ~HasSep(name)
             \/ ModuleSegment(name) = << >>
             \/ ModuleSegment(name)[1] = "."
             \/ /\ ModuleSegment(name) \in ImportableModules
                /\ AttrSegment(name) \notin ModuleAttrs(ModuleSegment(name)) )
              => raised.exc \notin {None, "ImproperlyConfigured"}

C2_Witness ==
    /\ pc = "failed"
    /\ raised.exc = "ImproperlyConfigured"
    /\ raised.arg = MONGOENGINE_USER_DOCUMENT

\* C3: after contribute_to_class has completed, MongoUser's USERNAME_FIELD
\* is the document's, its REQUIRED_FIELDS is the document's list in the same
\* order, and the names of its projected fields are exactly the primary
\* field name and the required names, each field with max_length 30.
C3_SchemaProjected ==
    LET p == document.USERNAME_FIELD
        R == document.REQUIRED_FIELDS
        f == shadow.fields
    IN  pc = "done" =>
            /\ {"USERNAME_FIELD", "REQUIRED_FIELDS"} \subseteq shadow.defined
            /\ shadow.USERNAME_FIELD = p
            /\ shadow.REQUIRED_FIELDS = R
            /\ {f[k].name : k \in DOMAIN f} = {p} \cup {R[k] : k \in DOMAIN R}
            /\ \A k \in DOMAIN f : f[k].max_length = MaxLength

C3_Witness ==
    /\ pc = "done"
    /\ Len(document.REQUIRED_FIELDS) = 2
    /\ Cardinality({document.USERNAME_FIELD, document.REQUIRED_FIELDS[1],
                    document.REQUIRED_FIELDS[2]}) = 3
    /\ Len(shadow.fields) = 3

\* C4: every query issued through the bound manager uses the document's
\* query entry point: no query has used MongoUser's, and the result sets
\* handed out belong to the document.
C4_QueriesTargetDocument ==
    /\ touched \subseteq {Document}
    /\ last.op \in {"get", "get_query_set", "get_empty_query_set"}
          => touched = {Document}
    /\ last.op \in {"get_query_set", "get_empty_query_set"}
          => last.qs.cls = Document
    /\ last.op = "get" => last.exc.cls \in {None, Document, MongoUser}
    /\ last.op = "get" /\ last.exc = NoExc
          => last.doc \in Rows(objects(Document))

C4_Witness ==
    /\ touched = {Document}
    /\ last.op = "get_query_set"
    /\ last.qs = objects(Document)

\* C5: every read of db, before the manager is attached, after a failed
\* class definition and after binding, raises NotImplementedError and
\* yields no value.
C5_DbNotImplemented ==
    last.op = "db" =>
        /\ last.exc.type = "NotImplementedError"
        /\ last.doc = NoDoc
        /\ last.qs = NoQuerySet

C5_Witness ==
    /\ last.op = "db"
    /\ pc = "done"
    /\ touched # {}
    /\ last.exc.type = "NotImplementedError"

\* C6: get_empty_query_set returns a result set of the document that holds
\* no document, whatever the collection holds.
C6_EmptyQuerySet ==
    last.op = "get_empty_query_set" =>
        /\ last.exc = NoExc
        /\ last.qs.cls = Document
        /\ Cardinality(Rows(last.qs)) = 0

C6_Witness ==
    /\ last.op = "get_empty_query_set"
    /\ \A v \in Values : store[v] >= 2
    /\ Rows(last.qs) = {}

\* C7: a get whose criteria match exactly one stored document returns that
\* document as the document layer returned it, raises nothing and leaves
\* the collection as it was; with a primary-field criterion the returned
\* document's primary-field value is the criterion.
C7_GetReturnsTheDocument ==
    [][ ( /\ last'.op = "get"
          /\ Cardinality(Matching(objects(Document), last'.criteria)) = 1 )
        => /\ store' = store
           /\ last'.exc = NoExc
           /\ last'.doc = queryset_get(objects(Document), last'.criteria).doc
           /\ last'.doc \in Rows(objects(Document))
           /\ last'.criteria # NoCriteria => last'.doc.pk = last'.criteria
      ]_vars

C7_Witness ==
    /\ last.op = "get"
    /\ last.criteria \in Values
    /\ store[last.criteria] = 1
    /\ last.exc = NoExc
    /\ last.doc.pk = last.criteria

\* C8 as stated: after bridging, every field declared under the document's
\* primary field name is a unique text field of max length 30, also when
\* REQUIRED_FIELDS contains that name.
C8_Original ==
    LET p == document.USERNAME_FIELD
        f == shadow.fields
    IN  pc = "done" =>
            /\ \E k \in DOMAIN f : f[k].name = p
            /\ \A k \in DOMAIN f :
                  f[k].name = p => f[k].unique /\ f[k].max_length = MaxLength

\* C8 amended: after bridging, the first declared field is under the primary
\* field name, unique and of max length 30; the fields declared after it
\* under that name are one per occurrence of the name in REQUIRED_FIELDS,
\* each of max length 30 and not unique.
C8_PrimaryFieldUnique ==
    LET p == document.USERNAME_FIELD
        R == document.REQUIRED_FIELDS
        f == shadow.fields
    IN  pc = "done" =>
            /\ Len(f) >= 1
            /\ f[1].name = p /\ f[1].unique /\ f[1].max_length = MaxLength
            /\ Cardinality({k \in 2..Len(f) : f[k].name = p})
                  = Cardinality({k \in DOMAIN R : R[k] = p})
            /\ \A k \in 2..Len(f) :
                  f[k].name = p => ~f[k].unique /\ f[k].max_length = MaxLength

C8_Witness ==
    /\ pc = "done"
    /\ \E k \in DOMAIN document.REQUIRED_FIELDS :
          document.REQUIRED_FIELDS[k] = document.USERNAME_FIELD
    /\ \E k \in 2..Len(shadow.fields) :
          /\ shadow.fields[k].name = document.USERNAME_FIELD
          /\ ~shadow.fields[k].unique

\* C9: the query target becomes the document only in contribute_to_class,
\* after the base attachment and after dj_model has recorded MongoUser, and
\* with no fault; it then stays the document; contribute_to_class completes
\* only bound; and once it has completed, no get, get_query_set,
\* get_empty_query_set or db changes the query target, dj_model or MongoUser.
C9_BoundOnce ==
    [][ /\ (model # Document /\ model' = Document) =>
              /\ pc = "captured" /\ pc' = "resolved"
              /\ "objects" \in shadow.defined
              /\ model = MongoUser
              /\ dj_model = MongoUser
              /\ raised'.exc = None
        /\ (dj_model # dj_model') =>
              /\ pc = "attached"
              /\ "objects" \in shadow.defined
              /\ dj_model' = MongoUser
        /\ model = Document => model' = Document
        /\ (pc # "done" /\ pc' = "done") => model = Document /\ raised.exc = None
        /\ pc = "done" =>
              /\ pc' = "done"
              /\ model' = model
              /\ dj_model' = dj_model
              /\ shadow' = shadow
      ]_vars

C9_Witness ==
    /\ pc = "done"
    /\ model = Document
    /\ dj_model = MongoUser
    /\ last.op = "get"
    /\ last.exc = MultipleObjectsReturned(Document)

\* C10: when the resolution of the document fails, MongoUser has no
\* USERNAME_FIELD, no REQUIRED_FIELDS and no projected field, and the
\* manager holds MongoUser both as its query target and as dj_model, with
\* the base attachment done.
C10_NoProjectionOnFailure ==
    pc = "failed" =>
        /\ raised.exc # None
        /\ shadow.defined = {"objects"}
        /\ shadow.USERNAME_FIELD = None
        /\ shadow.fields = << >>
        /\ model = MongoUser
        /\ dj_model = MongoUser

C10_Witness ==
    /\ pc = "failed"
    /\ raised.exc = "AttributeError"
    /\ shadow.fields = << >>
    /\ model = MongoUser
====
